---- MODULE Spec2Model ----
(***************************************************************************)
(* Model of package ytdlp (src/main.go): the streaming launcher            *)
(* ExecuteStream with its reaper and stderr-handshake goroutines, the      *)
(* synchronous command runner (Execute, DumpStdout, GetVideoInfo) and the  *)
(* installer (DownloadLatestFromGithub).                                   *)
(*                                                                         *)
(* Strings whose content the code inspects are sequences of one-character  *)
(* strings, so that strings.HasPrefix and slicing are computed.            *)
(***************************************************************************)
EXTENDS Integers, Sequences, FiniteSets, TLC

\* ------------------------------------------------------------------ bounds
\* lines a subprocess writes to stderr in one launch
MaxLines == 2
\* bytes a subprocess writes to stdout in one launch
MaxOut == 2
\* units (lines, bytes) an OS pipe holds before the subprocess's write blocks
PipeCap == 2

\* launches of the model; 1 is the launch of Spec, both run in ConcSpec
Launches == {1, 2}

\* --------------------------------------------------------------- strings
\* main.go:133
downloadPrefix == <<"[", "d", "o", "w", "n", "l", "o", "a", "d", "]">>
\* main.go:134
errorPrefix == <<"E", "R", "R", "O", "R", ":", " ">>

\* strings.HasPrefix(s, p)
HasPrefix(s, p) == Len(s) >= Len(p) /\ SubSeq(s, 1, Len(p)) = p

\* stderr lines a subprocess may print (without their line terminator, which
\* bufio.Scanner strips): "warning: x", "[download] 1%", "ERROR: disk full",
\* "ERROR:x" (no blank: not an error marker)
WarnLine == <<"w", "a", "r", "n", "i", "n", "g", ":", " ", "x">>
DownloadLine == downloadPrefix \o <<" ", "1", "%">>
ErrorLine == errorPrefix \o <<"d", "i", "s", "k", " ", "f", "u", "l", "l">>
NearLine == <<"E", "R", "R", "O", "R", ":", "x">>
LineSet == {WarnLine, DownloadLine, ErrorLine, NearLine}

\* the n-th byte a subprocess writes to stdout ("A", "B", "C", ... as codes)
OutByte(n) == 64 + n

\* target and extra arguments of the launches: <<url, args>>
StreamCalls == {<<"", <<>>>>, <<"u", <<"-q">>>>}

\* error values: Go's nil error, and errors.New(msg)
NilErr == [isNil |-> TRUE, msg |-> <<>>]
NewError(m) == [isNil |-> FALSE, msg |-> m]
StartErr == NewError(<<"s", "t", "a", "r", "t">>)

VARIABLES
    launch,   \* launch[i]: the state of ExecuteStream call i, its subprocess,
              \* its pipes and its goroutines
    spawned,  \* argument vectors of the processes the command runner started
    last,     \* the last call of Execute, DumpStdout or GetVideoInfo
    fs,       \* the file at the installer's target path
    inst      \* the last call of the release client or the installer

vars == <<launch, spawned, last, fs, inst>>

\* ------------------------------------------------------ ExecuteStream
InitLaunch ==
    [ pc         |-> "idle",     \* calling thread: idle, recv (line 146), done
      argv       |-> <<>>,       \* argument vector handed to exec.Command
      reader     |-> "nil",      \* returned io.Reader: nil or stdoutRd
      err        |-> NilErr,     \* returned error
      proc       |-> "none",     \* subprocess: none, running, exited
      errEmitted |-> <<>>,       \* lines the subprocess has written to stderr
      outEmitted |-> <<>>,       \* bytes the subprocess has written to stdout
      osErr      |-> <<>>,       \* OS pipe behind cmd.Stderr
      osOut      |-> <<>>,       \* OS pipe behind cmd.Stdout
      errCopy    |-> "none",     \* os/exec copier into stderrW: read, write, done
      outCopy    |-> "none",     \* os/exec copier into stdoutW: read, write, done
      errPipe    |-> <<>>,       \* io.Pipe stderrW -> stderrRd: the pending Write
      outPipe    |-> <<>>,       \* io.Pipe stdoutW -> stdoutRd: the pending Write
      stdoutWClosed |-> FALSE,   \* stdoutW.Close() has run (line 124)
      stderrWClosed |-> FALSE,   \* stderrW.Close() has run (never called)
      reaper     |-> "none",     \* goroutine of lines 123-126: wait, done
      hs         |-> "none",     \* goroutine of lines 130-145
      hsVal      |-> NilErr,     \* the value the handshake goroutine sends
      scanBuf    |-> <<>>,       \* lines buffered in stderrLineScanner
      ytErrCh    |-> <<>>,       \* value handed over on ytErrCh, not yet received
      nSignals   |-> 0,          \* sends on ytErrCh that completed
      got        |-> <<>>,       \* bytes the caller has read from the reader
      eof        |-> FALSE ]     \* the caller's Read returned io.EOF

Set(i, r) ==
    /\ launch' = [launch EXCEPT ![i] = r]
    /\ UNCHANGED <<spawned, last, fs, inst>>

\* lines 110-111: the argument vector
StreamArgv(url, args) == <<url>> \o args \o <<"-o", "-", "--newline">>

\* lines 109-127 and 129-130: build, start, spawn both goroutines; the calling
\* thread then blocks in the receive of line 146.  A failed Start returns at
\* line 121.
ExecuteStream(i, url, args, startOk) ==
    /\ launch[i].pc = "idle"
    /\ IF startOk
       THEN Set(i, [launch[i] EXCEPT
                      !.pc = "recv", !.argv = StreamArgv(url, args),
                      !.proc = "running", !.errCopy = "read", !.outCopy = "read",
                      !.reaper = "wait", !.hs = "scan"])
       ELSE Set(i, [launch[i] EXCEPT
                      !.pc = "done", !.argv = StreamArgv(url, args),
                      !.reader = "nil", !.err = StartErr])

\* ------------------------------------------------------------ subprocess
\* The subprocess writes a line to its stderr: the write(2) blocks while the
\* OS pipe is full.
WriteStderr(i, line) ==
    /\ launch[i].proc = "running"
    /\ Len(launch[i].errEmitted) < MaxLines
    /\ Len(launch[i].osErr) < PipeCap
    /\ Set(i, [launch[i] EXCEPT
                 !.errEmitted = Append(@, line), !.osErr = Append(@, line)])

\* The subprocess writes its next payload byte to its stdout.
WriteStdout(i) ==
    /\ launch[i].proc = "running"
    /\ Len(launch[i].outEmitted) < MaxOut
    /\ Len(launch[i].osOut) < PipeCap
    /\ LET b == OutByte(Len(launch[i].outEmitted) + 1)
       IN  Set(i, [launch[i] EXCEPT
                     !.outEmitted = Append(@, b), !.osOut = Append(@, b)])

\* The subprocess exits, which closes its ends of both OS pipes.
Exit(i) ==
    /\ launch[i].proc = "running"
    /\ Set(i, [launch[i] EXCEPT !.proc = "exited"])

\* ------------------------------------------- os/exec's copying goroutines
\* cmd.Stderr is no *os.File, so Start makes an OS pipe and a goroutine that
\* runs io.Copy(stderrW, pipe): it reads what the pipe holds and offers it to
\* stderrW.Write, which returns once stderrRd's readers have taken all of it.
\* End of file on the OS pipe ends the goroutine; stderrW stays open.
ErrCopyRead(i) ==
    /\ launch[i].errCopy = "read"
    /\ IF launch[i].osErr # <<>>
       THEN Set(i, [launch[i] EXCEPT
                      !.errPipe = launch[i].osErr, !.osErr = <<>>,
                      !.errCopy = "write"])
       ELSE /\ launch[i].proc = "exited"
            /\ Set(i, [launch[i] EXCEPT !.errCopy = "done"])

ErrCopyWritten(i) ==
    /\ launch[i].errCopy = "write"
    /\ launch[i].errPipe = <<>>
    /\ Set(i, [launch[i] EXCEPT !.errCopy = "read"])

OutCopyRead(i) ==
    /\ launch[i].outCopy = "read"
    /\ IF launch[i].osOut # <<>>
       THEN Set(i, [launch[i] EXCEPT
                      !.outPipe = launch[i].osOut, !.osOut = <<>>,
                      !.outCopy = "write"])
       ELSE /\ launch[i].proc = "exited"
            /\ Set(i, [launch[i] EXCEPT !.outCopy = "done"])

OutCopyWritten(i) ==
    /\ launch[i].outCopy = "write"
    /\ launch[i].outPipe = <<>>
    /\ Set(i, [launch[i] EXCEPT !.outCopy = "read"])

\* ------------------------------------------------------ reaper goroutine
\* variant: the reaper waits for the process alone (cmd.Process.Wait), not
\* for the copying goroutines
WaitReturnsProcessOnly(l) == l.proc = "exited"

\* cmd.Wait returns when the process has exited and both copying goroutines
\* have ended.
WaitReturns(l) ==
    l.proc = "exited" /\ l.errCopy = "done" /\ l.outCopy = "done"

\* lines 123-126: cmd.Wait(), then the deferred stdoutW.Close()
Reap(i) ==
    /\ launch[i].reaper = "wait"
    /\ WaitReturns(launch[i])
    /\ Set(i, [launch[i] EXCEPT !.reaper = "done", !.stdoutWClosed = TRUE])

\* ---------------------------------------------------- handshake goroutine
\* lines 136-141: what the loop does with a line
Classify(line) ==
    IF HasPrefix(line, downloadPrefix) THEN "download"
    ELSE IF HasPrefix(line, errorPrefix) THEN "error"
    ELSE "other"

\* variant: the line is not sliced
ErrTextWhole(line) == line

\* line 139: line[len(errorPrefix):]
ErrText(line) == SubSeq(line, Len(errorPrefix) + 1, Len(line))

\* stderrLineScanner.Scan() with no complete line buffered: a Read of
\* stderrRd, which takes part or all of the pending Write and reports end of
\* file only once stderrW is closed; Scan then returns false and the loop
\* ends (line 143).
HsFill(i) ==
    /\ launch[i].hs = "scan"
    /\ launch[i].scanBuf = <<>>
    /\ IF launch[i].errPipe # <<>>
       THEN \E k \in 1..Len(launch[i].errPipe) :
              Set(i, [launch[i] EXCEPT
                        !.scanBuf = SubSeq(launch[i].errPipe, 1, k),
                        !.errPipe = SubSeq(@, k + 1, Len(@))])
       ELSE /\ launch[i].stderrWClosed
            /\ Set(i, [launch[i] EXCEPT !.hs = "send", !.hsVal = NilErr])

\* the state of the goroutine after the loop body has seen `line`
AfterLine(l, line) ==
    CASE Classify(line) = "download" ->
           [l EXCEPT !.scanBuf = Tail(@), !.hs = "send", !.hsVal = NilErr]
      [] Classify(line) = "error" ->
           [l EXCEPT !.scanBuf = Tail(@), !.hs = "sendReturn",
                     !.hsVal = NewError(ErrText(line))]
      [] OTHER -> [l EXCEPT !.scanBuf = Tail(@)]

\* lines 132-142: Scan() hands out the next buffered line and the loop body
\* classifies it
HsLine(i) ==
    /\ launch[i].hs = "scan"
    /\ launch[i].scanBuf # <<>>
    /\ Set(i, AfterLine(launch[i], Head(launch[i].scanBuf)))

\* lines 139 and 143: the send on the unbuffered ytErrCh completes when the
\* calling thread is in its receive; line 140 returns, line 144 drains
HsSend(i) ==
    /\ launch[i].hs \in {"send", "sendReturn"}
    /\ launch[i].pc = "recv"
    /\ launch[i].ytErrCh = <<>>
    /\ Set(i, [launch[i] EXCEPT
                 !.ytErrCh = <<launch[i].hsVal>>,
                 !.nSignals = @ + 1,
                 !.hs = IF @ = "send" THEN "drain" ELSE "returned"])

\* line 144: io.Copy(io.Discard, stderrRd) reads and drops what is written
HsDrain(i) ==
    /\ launch[i].hs = "drain"
    /\ launch[i].errPipe # <<>>
    /\ \E k \in 1..Len(launch[i].errPipe) :
         Set(i, [launch[i] EXCEPT !.errPipe = SubSeq(@, k + 1, Len(@))])

\* ---------------------------------------------------------- calling thread
\* variant: stdoutRd is returned without blocking in the receive
ReturnWithoutReceive(i) ==
    /\ launch[i].pc = "recv"
    /\ Set(i, [launch[i] EXCEPT
                 !.pc = "done", !.reader = "stdoutRd",
                 !.err = IF launch[i].ytErrCh # <<>>
                         THEN launch[i].ytErrCh[1] ELSE NilErr,
                 !.ytErrCh = <<>>])

\* line 146: the receive, and the return of stdoutRd with the received value
Return(i) ==
    /\ launch[i].pc = "recv"
    /\ launch[i].ytErrCh # <<>>
    /\ Set(i, [launch[i] EXCEPT
                 !.pc = "done", !.reader = "stdoutRd",
                 !.err = launch[i].ytErrCh[1], !.ytErrCh = <<>>])

\* The caller reads the returned reader: a Read of stdoutRd takes part or all
\* of the pending Write, and reports end of file once stdoutW is closed.
CallerRead(i) ==
    /\ launch[i].pc = "done"
    /\ launch[i].reader = "stdoutRd"
    /\ ~launch[i].eof
    /\ IF launch[i].outPipe # <<>>
       THEN \E k \in 1..Len(launch[i].outPipe) :
              Set(i, [launch[i] EXCEPT
                        !.got = @ \o SubSeq(launch[i].outPipe, 1, k),
                        !.outPipe = SubSeq(@, k + 1, Len(@))])
       ELSE /\ launch[i].stdoutWClosed
            /\ Set(i, [launch[i] EXCEPT !.eof = TRUE])

\* ----------------------------------------------------------- command runner
\* how a run of the external binary can end: its exit and its combined output
JsonObject == "{\"id\":\"x\",\"title\":\"t\",\"thumbnail\":\"u\",\"duration\":42}"
Outputs == {"", "oops", JsonObject}
Targets == {"", "u"}
ExtraArgs == {<<>>, <<"-x">>, <<"-x", "-y">>}

\* processes the runner may start in one behaviour
MaxSpawn == 2

NoCall ==
    [ op |-> "none", target |-> "", args |-> <<>>, started |-> 0,
      err |-> NilErr, out |-> "", vi |-> <<>> ]

\* fmt.Sprint of the *exec.ExitError of a run that exits with status 1
ExitStatus == "exit status 1"

\* lines 51 and 90
YtDlpError(out) == NewError(<<"yt-dlp error: \n", ExitStatus, " | ", out>>)

\* line 47: slices.Insert(args, 0, url)
ExecuteArgv(url, args) == <<url>> \o args

\* line 80: append(args, url)
DumpStdoutArgv(url, args) == Append(args, url)

\* line 86
GetVideoInfoArgv(query) ==
    << <<"ytsearch:", query>>, "-s", "-O", "%(.{id,title,thumbnail,duration})#j" >>

\* lines 43-54
Execute(url, args, exitOk, out) ==
    /\ IF url = ""
       THEN /\ last' = [NoCall EXCEPT !.op = "Execute", !.target = url,
                          !.args = args,
                          !.err = NewError(<<"empty url">>)]
            /\ UNCHANGED spawned
       ELSE /\ Len(spawned) < MaxSpawn
            /\ spawned' = Append(spawned, ExecuteArgv(url, args))
            /\ last' = [NoCall EXCEPT !.op = "Execute", !.target = url,
                          !.args = args, !.started = 1,
                          !.err = IF exitOk THEN NilErr ELSE YtDlpError(out)]
    /\ UNCHANGED <<launch, fs, inst>>

\* lines 76-83
DumpStdout(url, args, exitOk, out) ==
    /\ IF url = ""
       THEN /\ last' = [NoCall EXCEPT !.op = "DumpStdout", !.target = url,
                          !.args = args,
                          !.err = NewError(<<"empty url">>)]
            /\ UNCHANGED spawned
       ELSE /\ Len(spawned) < MaxSpawn
            /\ spawned' = Append(spawned, DumpStdoutArgv(url, args))
            /\ last' = [NoCall EXCEPT !.op = "DumpStdout", !.target = url,
                          !.args = args, !.started = 1, !.out = out,
                          !.err = IF exitOk THEN NilErr
                                  ELSE NewError(<<ExitStatus>>)]
    /\ UNCHANGED <<launch, fs, inst>>

\* lines 99-107: json.Decoder.Decode of the captured output into a
\* YTDLPVideoInfo, on the outputs of the model
decodeVideoInfo(stdout) ==
    CASE stdout = JsonObject ->
           [ err |-> NilErr,
             vi |-> << [Id |-> "x", Title |-> "t", Thumbnail |-> "u",
                        Duration |-> 42] >> ]
      [] stdout = "" -> [err |-> NewError(<<"EOF">>), vi |-> <<>>]
      [] OTHER -> [err |-> NewError(<<"invalid character">>), vi |-> <<>>]

\* lines 85-97: the query is not examined before the process is started
GetVideoInfo(query, exitOk, out) ==
    /\ Len(spawned) < MaxSpawn
    /\ spawned' = Append(spawned, GetVideoInfoArgv(query))
    /\ LET d == decodeVideoInfo(out)
       IN  last' =
             [NoCall EXCEPT
                !.op = "GetVideoInfo", !.target = query, !.started = 1,
                !.err = IF ~exitOk THEN YtDlpError(out)
                        ELSE IF ~d.err.isNil
                        THEN NewError(<<"failed to decode video info: ">>
                                      \o d.err.msg)
                        ELSE NilErr,
                !.vi = IF exitOk /\ d.err.isNil THEN d.vi ELSE <<>>]
    /\ UNCHANGED <<launch, fs, inst>>

\* ------------------------------------------------- release client, installer
\* line 17
exeName == "yt-dlp"

\* x | y on file modes
RECURSIVE BitOr(_, _)
BitOr(x, y) ==
    IF x = 0 THEN y
    ELSE IF y = 0 THEN x
    ELSE (IF x % 2 = 1 \/ y % 2 = 1 THEN 1 ELSE 0)
         + 2 * BitOr(x \div 2, y \div 2)

\* line 210: 0111
ExecBits == 73

\* modes of the file at the target path: 0644, 0600, 0444, 0755
Modes == {420, 384, 292, 493}

\* what the release listing may answer: no answer, a body that is no JSON
\* array of releases, or an array of releases (tag names, newest first)
Responses ==
    { [kind |-> "neterr", tags |-> <<>>], [kind |-> "badjson", tags |-> <<>>] }
    \cup { [kind |-> "ok", tags |-> t] :
             t \in {<<>>, <<"v1">>, <<"v2">>, <<"v2", "v1">>} }

\* which system calls and requests of an install succeed, and the mode
\* os.Create gives a new file (0666 less the umask)
Envs ==
    [ create : BOOLEAN, get : BOOLEAN, copy : BOOLEAN, stat : BOOLEAN,
      chmod : BOOLEAN, newMode : {420, 384} ]

NoFile == [exists |-> FALSE, mode |-> 0, content |-> "", url |-> <<>>]
NoInst ==
    [ op |-> "none", request |-> <<>>, kind |-> "ok", msg |-> <<>>,
      listed |-> FALSE, releases |-> <<>>, downloads |-> 0, before |-> NoFile ]

\* lines 149-162: the outcome of GetGithubReleases on the answer `resp`
Releases(resp) ==
    CASE resp.kind = "neterr" -> [d |-> <<>>, err |-> NewError(<<"get">>)]
      [] resp.kind = "badjson" -> [d |-> <<>>, err |-> NewError(<<"decode">>)]
      [] OTHER -> [d |-> resp.tags, err |-> NilErr]

\* line 150
ReleasesUrl(page, entries) ==
    << "https://api.github.com/repos/yt-dlp/yt-dlp/releases?page=", page,
       "&per_page=", entries >>

GetGithubReleases(page, entries, resp) ==
    /\ inst' = [NoInst EXCEPT
                  !.op = "GetGithubReleases",
                  !.request = ReleasesUrl(page, entries),
                  !.kind = IF Releases(resp).err.isNil THEN "ok" ELSE "error",
                  !.msg = Releases(resp).err.msg,
                  !.listed = Releases(resp).err.isNil,
                  !.releases = Releases(resp).d,
                  !.before = fs]
    /\ UNCHANGED <<launch, spawned, last, fs>>

\* line 178
AssetUrl(version) ==
    <<"https://github.com/yt-dlp/yt-dlp/releases/download/", version, "/", exeName>>

\* lines 186-202: os.Create makes or truncates the file, then the body of the
\* response is copied into it
downloadFile(f, url, env) ==
    IF ~env.create THEN [fs |-> f, err |-> NewError(<<"create">>)]
    ELSE LET made == [ exists |-> TRUE,
                       mode |-> IF f.exists THEN f.mode ELSE env.newMode,
                       content |-> "empty", url |-> <<>> ]
         IN  IF ~env.get THEN [fs |-> made, err |-> NewError(<<"get">>)]
             ELSE IF ~env.copy
             THEN [ fs |-> [made EXCEPT !.content = "partial", !.url = url],
                    err |-> NewError(<<"copy">>) ]
             ELSE [ fs |-> [made EXCEPT !.content = "body", !.url = url],
                    err |-> NilErr ]

\* lines 204-211
setExecPermission(f, env) ==
    IF ~env.stat \/ ~f.exists THEN [fs |-> f, err |-> NewError(<<"stat">>)]
    ELSE IF ~env.chmod THEN [fs |-> f, err |-> NewError(<<"chmod">>)]
    ELSE [fs |-> [f EXCEPT !.mode = BitOr(f.mode, ExecBits)], err |-> NilErr]

\* lines 177-184
Download(f, version, env) ==
    LET d == downloadFile(f, AssetUrl(version), env)
    IN  IF ~d.err.isNil THEN d ELSE setExecPermission(d.fs, env)

DownloadFromGithub(version, env) ==
    /\ fs' = Download(fs, version, env).fs
    /\ inst' = [NoInst EXCEPT
                  !.op = "DownloadFromGithub",
                  !.request = AssetUrl(version),
                  !.kind = IF Download(fs, version, env).err.isNil
                           THEN "ok" ELSE "error",
                  !.msg = Download(fs, version, env).err.msg,
                  !.downloads = 1,
                  !.before = fs]
    /\ UNCHANGED <<launch, spawned, last>>

\* lines 164-175: r[0] on an empty listing is an index out of range, a
\* run-time panic
DownloadLatestFromGithub(resp, env) ==
    LET r == Releases(resp)
        base == [NoInst EXCEPT !.op = "DownloadLatestFromGithub",
                               !.request = ReleasesUrl(1, 1),
                               !.listed = r.err.isNil, !.releases = r.d,
                               !.before = fs]
    IN  /\ IF ~r.err.isNil
           THEN /\ inst' = [base EXCEPT !.kind = "error", !.msg = r.err.msg]
                /\ UNCHANGED fs
           ELSE IF Len(r.d) = 0
           THEN /\ inst' = [base EXCEPT
                              !.kind = "panic",
                              !.msg = <<"index out of range [0] with length 0">>]
                /\ UNCHANGED fs
           ELSE LET d == Download(fs, r.d[1], env)
                IN  /\ fs' = d.fs
                    /\ inst' =
                         [base EXCEPT
                            !.downloads = 1,
                            !.kind = IF d.err.isNil THEN "ok" ELSE "error",
                            !.msg = IF d.err.isNil THEN <<>>
                                    ELSE <<"failed to download bin from GitHub releases: ">>
                                         \o d.err.msg]
        /\ UNCHANGED <<launch, spawned, last>>

\* ------------------------------------------------------- specifications
\* nothing has been called; the target path of the installer holds no file
Init ==
    /\ launch = [i \in Launches |-> InitLaunch]
    /\ spawned = <<>>
    /\ last = NoCall
    /\ fs = NoFile
    /\ inst = NoInst

\* the same, with any file at the target path
InstallInit ==
    /\ launch = [i \in Launches |-> InitLaunch]
    /\ spawned = <<>>
    /\ last = NoCall
    /\ fs \in {NoFile}
          \cup { [exists |-> TRUE, mode |-> m, content |-> "old", url |-> <<>>] :
                   m \in Modes }
    /\ inst = NoInst

Program(i) ==
    \/ \E c \in StreamCalls, ok \in BOOLEAN :
         ExecuteStream(i, c[1], c[2], ok)
    \/ ErrCopyRead(i)
    \/ ErrCopyWritten(i)
    \/ OutCopyRead(i)
    \/ OutCopyWritten(i)
    \/ Reap(i)
    \/ HsFill(i)
    \/ HsLine(i)
    \/ HsSend(i)
    \/ HsDrain(i)
    \/ Return(i)
    \/ CallerRead(i)

Subprocess(i) ==
    \/ \E line \in LineSet : WriteStderr(i, line)
    \/ WriteStdout(i)
    \/ Exit(i)

Next == Program(1) \/ Subprocess(1)

Spec == Init /\ [][Next]_vars

\* The Go scheduler runs every goroutine that can take a step; the subprocess
\* is outside the program and owes no progress.
Goroutines(i) ==
    /\ WF_vars(ErrCopyRead(i)) /\ WF_vars(ErrCopyWritten(i))
    /\ WF_vars(OutCopyRead(i)) /\ WF_vars(OutCopyWritten(i))
    /\ WF_vars(Reap(i))
    /\ WF_vars(HsFill(i)) /\ WF_vars(HsLine(i)) /\ WF_vars(HsSend(i))
    /\ WF_vars(HsDrain(i))
    /\ WF_vars(Return(i))

\* the goroutines run, and the caller keeps reading the stream it was given
FairSpec == Spec /\ Goroutines(1) /\ WF_vars(CallerRead(1))

\* only the stderr side and the calling thread run: nothing is promised
\* about stdout, its copier, the reaper or the caller's reads
StderrFairSpec ==
    /\ Spec
    /\ WF_vars(ErrCopyRead(1)) /\ WF_vars(ErrCopyWritten(1))
    /\ WF_vars(HsFill(1)) /\ WF_vars(HsLine(1)) /\ WF_vars(HsSend(1))
    /\ WF_vars(Return(1))

\* Two launches at once.  Each subprocess writes at most ConcLines lines,
\* each with a marker, and ConcOut bytes.
ConcLines == 2
ConcOut == 1
ConcLineSet == {DownloadLine, ErrorLine}

ConcSubprocess(i) ==
    \/ \E line \in ConcLineSet :
         Len(launch[i].errEmitted) < ConcLines /\ WriteStderr(i, line)
    \/ Len(launch[i].outEmitted) < ConcOut /\ WriteStdout(i)
    \/ Exit(i)

ConcProgram(i) ==
    \/ ExecuteStream(i, "u", <<"-q">>, TRUE)
    \/ ErrCopyRead(i)
    \/ ErrCopyWritten(i)
    \/ OutCopyRead(i)
    \/ OutCopyWritten(i)
    \/ Reap(i)
    \/ HsFill(i)
    \/ HsLine(i)
    \/ HsSend(i)
    \/ HsDrain(i)
    \/ Return(i)
    \/ CallerRead(i)

ConcNext == \E i \in Launches : ConcProgram(i) \/ ConcSubprocess(i)

ConcSpec == Init /\ [][ConcNext]_vars

ConcFairSpec ==
    /\ ConcSpec
    /\ Goroutines(1) /\ WF_vars(CallerRead(1))
    /\ Goroutines(2) /\ WF_vars(CallerRead(2))

\* --------------------------------------------------- terms of the claims
\* positions of the lines of `lines` that start with one of the two markers
Markers(lines) == {n \in 1..Len(lines) : Classify(lines[n]) # "other"}

\* the first line that starts with a marker; only used where one exists
FirstMarker(lines) ==
    lines[CHOOSE n \in Markers(lines) : \A m \in Markers(lines) : n <= m]

\* "download", "error", or "none" while no line with a marker was written
Verdict(lines) ==
    IF Markers(lines) = {} THEN "none" ELSE Classify(FirstMarker(lines))

IsPrefix(s, t) == Len(s) <= Len(t) /\ SubSeq(t, 1, Len(s)) = s

\* ExecuteStream has returned through line 146
Returned(l) == l.pc = "done" /\ l.reader = "stdoutRd"

\* stderr lines written by the subprocess and not yet read from stderrRd
Unread(l) == Len(l.osErr) + Len(l.errPipe)

\* the command runner
RunnerNext ==
    \/ \E url \in Targets, args \in ExtraArgs, ok \in BOOLEAN, out \in Outputs :
         Execute(url, args, ok, out)
    \/ \E url \in Targets, args \in ExtraArgs, ok \in BOOLEAN, out \in Outputs :
         DumpStdout(url, args, ok, out)
    \/ \E q \in Targets, ok \in BOOLEAN, out \in Outputs :
         GetVideoInfo(q, ok, out)

RunnerSpec == Init /\ [][RunnerNext]_vars

\* the release client and the installer
InstallNext ==
    \/ \E page \in 1..2, entries \in 1..2, resp \in Responses :
         GetGithubReleases(page, entries, resp)
    \/ \E v \in {"v1", "v2"}, env \in Envs : DownloadFromGithub(v, env)
    \/ \E resp \in Responses, env \in Envs : DownloadLatestFromGithub(resp, env)

InstallSpec == InstallInit /\ [][InstallNext]_vars

\* ------------------------------------------------------------------ claims
\* the launch the single-launch claims speak of
L == launch[1]

\* what the caller holds at any moment: a nil error on the started branch,
\* a prefix of the bytes the subprocess wrote, and end of stream only after
\* the subprocess has exited and all of them were read
C1_Delivery ==
    /\ (Returned(L) /\ Verdict(L.errEmitted) = "download") => L.err = NilErr
    /\ IsPrefix(L.got, L.outEmitted)
    /\ L.eof => (L.proc = "exited" /\ L.got = L.outEmitted)

\* C1 (started branch): when the first line with a marker that the subprocess
\* writes to stderr starts with "[download]", ExecuteStream returns stdoutRd
\* with a nil error; what the caller reads is at all times a prefix of the
\* bytes the subprocess wrote, end of stream is reported only after all of
\* them, and once the subprocess has exited a caller that keeps reading
\* gets them all and then end of stream.
C1_StartedBranch ==
    /\ []C1_Delivery
    /\ (Verdict(L.errEmitted) = "download") ~> (Returned(L) /\ L.err = NilErr)
    /\ (Verdict(L.errEmitted) = "download" /\ L.proc = "exited")
         ~> (L.eof /\ L.got = L.outEmitted)

\* the run of the specification's example extended to the model's payload:
\* "warning: x", "[download] 1%" on stderr, all payload bytes read, then
\* end of stream
C1_Witness ==
    /\ L.errEmitted = <<WarnLine, DownloadLine>>
    /\ Returned(L) /\ L.err = NilErr
    /\ L.eof /\ Len(L.got) = MaxOut

\* the returned error is not nil and its message, put after "ERROR: ", is
\* the first line with a marker
C2_ErrorText ==
    (Returned(L) /\ Verdict(L.errEmitted) = "error")
        => /\ ~L.err.isNil
           /\ errorPrefix \o L.err.msg = FirstMarker(L.errEmitted)

C3_FailOpenReturns ==
    (L.proc = "exited" /\ Verdict(L.errEmitted) = "none") ~> (L.pc = "done")

\* C4 (reap): once the subprocess has exited, a caller that holds the
\* returned stream and keeps reading it eventually gets end of stream.
C4_ReaderGetsEof == (L.proc = "exited" /\ Returned(L)) ~> L.eof

\* C5 (stderr drain): after ExecuteStream has returned, what the subprocess
\* writes to stderr is eventually read: no written line stays unread for ever.
C5_StderrDrained == Returned(L) ~> (Unread(L) = 0)

\* the subprocess of a launch has written a line with a marker or has exited
Resolvable(l) ==
    l.proc # "none" /\ (Verdict(l.errEmitted) # "none" \/ l.proc = "exited")

\* C6 (concurrent launches): when every one of the launches has a subprocess
\* that has written a line with a marker or has exited, every call returns.
C6_AllResolve ==
    (\A i \in Launches : Resolvable(launch[i]))
        ~> (\A i \in Launches : launch[i].pc = "done")

\* C7 (ordering): the verdict is sent at most once; ExecuteStream has
\* returned the stream, and the caller has read from it, only after exactly
\* one verdict was sent.
C7_VerdictFirst ==
    /\ L.nSignals <= 1
    /\ Returned(L) => L.nSignals = 1
    /\ (L.got # <<>> \/ L.eof) => L.nSignals = 1
    /\ (L.pc = "recv") => (L.reader = "nil" /\ L.got = <<>>)

\* the caller has read payload after the one verdict
C7_Witness == Returned(L) /\ L.got # <<>> /\ L.nSignals = 1

\* C8 (empty target): a call of Execute, DumpStdout or GetVideoInfo with an
\* empty target returns an error and starts no process.
C8_EmptyTargetFails ==
    (last.op \in {"Execute", "DumpStdout", "GetVideoInfo"} /\ last.target = "")
        => (~last.err.isNil /\ last.started = 0)

\* C9 (argument vector): the process a call of Execute or DumpStdout with a
\* non-empty target starts has the target first and then the extra arguments.
C9_TargetFirst ==
    (last.op \in {"Execute", "DumpStdout"} /\ last.target # "")
        => spawned[Len(spawned)] = <<last.target>> \o last.args

\* C10 (no releases): DownloadLatestFromGithub on a listing that succeeds
\* with no entry returns an error; it starts no download and leaves the
\* target path alone.
C10_NoReleasesError ==
    (inst.op = "DownloadLatestFromGithub" /\ inst.listed /\ inst.releases = <<>>)
        => (inst.kind = "error" /\ inst.downloads = 0 /\ fs = inst.before)

====
